---- MODULE Spec2Model ----
\* Job / chunk orchestration pipeline of the synthetic data generation server:
\* JobManager (core/job_manager.py), JobState (core/models.py),
\* GenerationService (services/generation_service.py) and the job router
\* (api_server/routers/jobs.py).
\*
\* Rows are abstracted to row counts: a batch is the number of rows it holds.
\* Timestamps are abstracted to "set / not set" (TRUE / FALSE).
EXTENDS Integers, Sequences, FiniteSets, TLC

\* ---------------------------------------------------------------- bounds
\* largest total_rows of a job specification
MaxRows == 2
\* largest chunk_size of a job specification
MaxChunkSize == 2
\* settings.vector_store.max_retry_attempts (a configuration value)
MaxRetryAttempts == 2
\* most rows in a batch handed to filter_new_rows
MaxBatch == 2
\* most add_chunk calls made on one job by a caller of JobManager
MaxStoreChunks == 2
\* largest total_rows of the job whose rows are followed by value
MaxRowTotal == 4
\* the draws of rng.randint(100, 999) in _make_unique_value are 100..100+ForcedSpread
ForcedSpread == 1

\* ---------------------------------------------------------------- state
VARIABLES
    jobs,          \* JobManager.jobs: job id -> JobState
    worker,        \* the background run_job task: position, loop index, locals,
                   \* and whether a cancel was accepted while a chunk of this
                   \* run was being generated
    vector_store,  \* GenerationService._vector_store is configured (not None)
    primary_log,   \* calls of the primary generator for this job: "no_quota",
                   \* "quota" once it raised QuotaExceededError, and
                   \* "called_after_quota" once it was called again after that
    last_control,  \* the latest resume or retry that control_job accepted, and
                   \* chunks_completed at that time
    disk,          \* the persistence directory: job id -> contents of <job_id>.json
    files,         \* the job's chunk files: chunk id -> lines of chunk_<id>.csv
    collection,    \* the Chroma collection of the vector store: its entries
    filters,       \* the filter_new_rows calls in progress: caller -> locals
    tasks,         \* the background tasks of POST /jobs/{id}/run: job -> position
    gen            \* one job's rows by value: the rows stored for it and the
                   \* locals of the generate_chunk call in progress

vars == <<jobs, worker, vector_store, primary_log, last_control,
          disk, files, collection, filters, tasks, gen>>

\* the state of the vector store's collection and of the calls filtering rows
dedupVars == <<collection, filters>>

rowVars == <<tasks, gen>>

JobIds == {1}
\* ids a request may name: the job and one id no job has
RequestIds == {1, 2}

Statuses == {"pending", "schema_validation", "generating", "paused",
             "completed", "failed", "cancelled"}
Actions == {"pause", "resume", "cancel", "retry", "other"}

NoError == "none"
NoChunk == 0

\* ---------------------------------------------------------------- JobManager
TotalChunksFloor(total_rows, chunk_size) == total_rows \div chunk_size

TotalChunks(total_rows, chunk_size) ==
    (total_rows + chunk_size - 1) \div chunk_size

NewJobState(total_rows, chunk_size) ==
    [ total_rows          |-> total_rows,
      chunk_size          |-> chunk_size,
      status              |-> "pending",
      total_chunks        |-> TotalChunks(total_rows, chunk_size),
      rows_generated      |-> 0,
      chunks_completed    |-> 0,
      current_chunk       |-> NoChunk,
      started_at          |-> FALSE,
      completed_at        |-> FALSE,
      paused_at           |-> FALSE,
      error_message       |-> NoError,
      progress_percentage |-> 0,
      chunks              |-> << >>,
      schema_validated    |-> FALSE,
      can_resume          |-> TRUE ]

\* JobManager.create_job
CreateJobIn(js, id, total_rows, chunk_size) ==
    (id :> NewJobState(total_rows, chunk_size)) @@ js

\* JobManager.validate_schema
ValidateSchema(js, id) ==
    IF id \notin DOMAIN js THEN js
    ELSE [js EXCEPT ![id].schema_validated = TRUE]

\* the timestamp / message bookkeeping of update_job_status for one job
StatusFields(job, status, error) ==
    IF status = "generating" /\ ~job.started_at
        THEN [job EXCEPT !.status = status, !.started_at = TRUE]
    ELSE IF status = "completed"
        THEN [job EXCEPT !.status = status, !.completed_at = TRUE,
                         !.progress_percentage = 100]
    ELSE IF status = "paused"
        THEN [job EXCEPT !.status = status, !.paused_at = TRUE]
    ELSE IF status = "failed"
        THEN [job EXCEPT !.status = status, !.error_message = error,
                         !.completed_at = TRUE]
    ELSE [job EXCEPT !.status = status]

\* JobManager.update_job_status
UpdateJobStatus(js, id, status, error) ==
    IF id \notin DOMAIN js THEN js
    ELSE [js EXCEPT ![id] = StatusFields(js[id], status, error)]

\* JobProgress.update_progress (the percentage is kept as a whole number)
UpdateProgress(job) ==
    IF job.total_chunks > 0
        THEN [job EXCEPT !.progress_percentage =
                            (job.chunks_completed * 100) \div job.total_chunks]
        ELSE job

\* add_chunk counting the chunk but not its rows
JobAddChunkKeepsRows(job, meta) ==
    UpdateProgress([job EXCEPT !.chunks = Append(@, meta),
                               !.chunks_completed = @ + 1])

\* JobState.add_chunk
JobAddChunk(job, meta) ==
    UpdateProgress([job EXCEPT !.chunks = Append(@, meta),
                               !.chunks_completed = @ + 1,
                               !.rows_generated = @ + meta.rows_generated])

\* JobManager.add_chunk
AddChunk(js, id, meta) ==
    IF id \notin DOMAIN js THEN js
    ELSE [js EXCEPT ![id] = JobAddChunk(js[id], meta)]

\* JobManager.set_current_chunk
SetCurrentChunk(js, id, chunk) ==
    IF id \notin DOMAIN js THEN js
    ELSE [js EXCEPT ![id].current_chunk = chunk]

\* a chunk with this id is in the job's chunk list
\* (the test "any(chunk.chunk_id == chunk_id for chunk in job.chunks)")
ChunkPresentNever(job, chunk) == FALSE

ChunkPresent(job, chunk) ==
    \E i \in 1..Len(job.chunks) : job.chunks[i].chunk_id = chunk

\* control_job, "cancel": the statuses a job can be cancelled from
CancelAllowedFromFailed(status) == status # "completed"

CancelAllowed(status) == status \notin {"completed", "failed"}

\* control_job, "retry" branch body
RetryResetsChunks(job) ==
    [job EXCEPT !.status = "pending", !.error_message = NoError,
                !.chunks = << >>, !.chunks_completed = 0, !.rows_generated = 0]

RetryFields(job) ==
    [job EXCEPT !.status = "pending", !.error_message = NoError]

\* JobManager.control_job: the new job table and the value returned
ControlJob(js, id, action) ==
    IF id \notin DOMAIN js THEN [jobs |-> js, ok |-> FALSE]
    ELSE IF action = "pause" THEN
        IF js[id].status = "generating"
            THEN [jobs |-> UpdateJobStatus(js, id, "paused", NoError), ok |-> TRUE]
            ELSE [jobs |-> js, ok |-> FALSE]
    ELSE IF action = "resume" THEN
        IF js[id].status = "paused"
            THEN [jobs |-> [UpdateJobStatus(js, id, "generating", NoError)
                                EXCEPT ![id].paused_at = FALSE],
                  ok |-> TRUE]
            ELSE [jobs |-> js, ok |-> FALSE]
    ELSE IF action = "cancel" THEN
        IF CancelAllowed(js[id].status)
            THEN [jobs |-> [UpdateJobStatus(js, id, "cancelled", NoError)
                                EXCEPT ![id].can_resume = FALSE],
                  ok |-> TRUE]
            ELSE [jobs |-> js, ok |-> FALSE]
    ELSE IF action = "retry" THEN
        IF js[id].status = "failed" /\ js[id].can_resume
            THEN [jobs |-> [js EXCEPT ![id] = RetryFields(js[id])], ok |-> TRUE]
            ELSE [jobs |-> js, ok |-> FALSE]
    ELSE [jobs |-> js, ok |-> FALSE]

\* ---------------------------------------------------------------- persistence
\* a job file that json.load or JobState(**job_data) cannot read
Corrupt == [truncated |-> TRUE]

Readable(file) == "progress" \in DOMAIN file

\* job.model_dump(mode='json'): the document written, nested as JobState is
ModelDump(job) ==
    [ specification |-> [ total_rows |-> job.total_rows,
                          chunk_size |-> job.chunk_size ],
      progress |-> [ status              |-> job.status,
                     rows_generated      |-> job.rows_generated,
                     chunks_completed    |-> job.chunks_completed,
                     total_chunks        |-> job.total_chunks,
                     current_chunk       |-> job.current_chunk,
                     started_at          |-> job.started_at,
                     completed_at        |-> job.completed_at,
                     paused_at           |-> job.paused_at,
                     error_message       |-> job.error_message,
                     progress_percentage |-> job.progress_percentage ],
      chunks           |-> job.chunks,
      schema_validated |-> job.schema_validated,
      can_resume       |-> job.can_resume ]

\* JobState(**job_data)
LoadJobState(doc) ==
    [ total_rows          |-> doc.specification.total_rows,
      chunk_size          |-> doc.specification.chunk_size,
      status              |-> doc.progress.status,
      total_chunks        |-> doc.progress.total_chunks,
      rows_generated      |-> doc.progress.rows_generated,
      chunks_completed    |-> doc.progress.chunks_completed,
      current_chunk       |-> doc.progress.current_chunk,
      started_at          |-> doc.progress.started_at,
      completed_at        |-> doc.progress.completed_at,
      paused_at           |-> doc.progress.paused_at,
      error_message       |-> doc.progress.error_message,
      progress_percentage |-> doc.progress.progress_percentage,
      chunks              |-> doc.chunks,
      schema_validated    |-> doc.schema_validated,
      can_resume          |-> doc.can_resume ]

\* what a write of the job file can come to: "ok", the file holds the dump;
\* "unchanged", open() raised and the old file stays; "corrupt", the file was
\* truncated by open(.., 'w') and the dump raised before it was complete.
\* _persist_job logs the exception and returns in every case.
WriteOutcomes == {"ok", "unchanged", "corrupt"}

\* JobManager._persist_job
PersistJob(dk, js, id, outcome) ==
    IF id \notin DOMAIN js \/ outcome = "unchanged" THEN dk
    ELSE IF outcome = "ok" THEN (id :> ModelDump(js[id])) @@ dk
    ELSE (id :> Corrupt) @@ dk

\* JobManager._load_jobs: a file that cannot be read is logged and skipped
LoadJobs(dk) ==
    [ id \in { i \in DOMAIN dk : Readable(dk[i]) } |-> LoadJobState(dk[id]) ]

\* ---------------------------------------------------------------- chunk files
\* DiskStorageHandler._write_csv: the header line, then one line per row; the
\* header line is written 0 and a data line is written as the id (1 or more)
\* of the chunk it belongs to
Header == 0

WriteCsv(chunk, rows) == <<Header>> \o [i \in 1..rows |-> chunk]

\* DiskStorageHandler.store_chunk: chunk_<id>.csv is written anew
StoreChunk(fs, chunk, rows) == (chunk :> WriteCsv(chunk, rows)) @@ fs

\* sorted(chunks, key=lambda c: c.chunk_id) by insertion: the sort is stable, a
\* chunk goes after the chunks of the sorted list whose id is not greater
InsertChunk(q, m) ==
    LET k == Cardinality({ i \in 1..Len(q) : q[i].chunk_id <= m.chunk_id })
    IN SubSeq(q, 1, k) \o <<m>> \o SubSeq(q, k + 1, Len(q))

\* the chunk list as it is handed over
SortedUnchanged(q) == q

RECURSIVE SortedChunks(_)
SortedChunks(q) ==
    IF q = << >> THEN << >>
    ELSE InsertChunk(SortedChunks(SubSeq(q, 1, Len(q) - 1)), q[Len(q)])

\* DiskStorageHandler._merge_csv: the first chunk file whole, every later one
\* from its second line on (next(infile) skips the header)
RECURSIVE MergeCsv(_, _, _)
MergeCsv(q, fs, first_chunk) ==
    IF q = << >> THEN << >>
    ELSE LET infile == fs[q[1].chunk_id]
         IN (IF first_chunk THEN infile ELSE Tail(infile))
              \o MergeCsv(Tail(q), fs, FALSE)

\* DiskStorageHandler.merge_chunks for CSV: the lines of the output file;
\* opening a chunk file that does not exist raises
MergeChunks(chunks, fs) ==
    IF \E i \in 1..Len(chunks) : chunks[i].chunk_id \notin DOMAIN fs
        THEN [raised |-> "merge_error", lines |-> << >>]
        ELSE [raised |-> NoError, lines |-> MergeCsv(SortedChunks(chunks), fs, TRUE)]

\* ---------------------------------------------------------------- vector store
\* the threads that call filter_new_rows
Callers == {1, 2}

\* the job_id arguments of filter_new_rows
DedupJobs == {"A", "B"}

\* a row is written as the value of its uniqueness field: "a" and "a2" are
\* near-duplicates, "b" is unlike both; NoValue is a row whose field is None
Values == {"a", "a2", "b"}

NoValue == "None"

EmptyContent == ""

\* VectorStore._build_content: "" as soon as a chosen field has no value
BuildContent(row) == IF row = NoValue THEN EmptyContent ELSE row

\* cosine distance between the embeddings of two contents, in steps: 0 for the
\* same text, 1 for near-duplicates, 2 otherwise
Distance(x, y) ==
    IF x = y THEN 0
    ELSE IF {x, y} = {"a", "a2"} THEN 1
    ELSE 2

\* VectorStore._similarity_threshold, in the steps of Distance
SimilarityThreshold == 1

\* the comparison of _is_duplicate turned round
IsDuplicateReversed(coll, content) ==
    \E e \in coll : Distance(e.content, content) >= SimilarityThreshold

\* VectorStore._is_duplicate: the nearest entry of the collection, whatever job
\* it was added for, is within the threshold
IsDuplicate(coll, content) ==
    \E e \in coll : Distance(e.content, content) <= SimilarityThreshold

\* VectorStore._add_embedding
AddEmbedding(coll, job_id, content) ==
    coll \cup { [job_id |-> job_id, content |-> content] }

\* no filter_new_rows call made yet
NoCall ==
    [pc |-> "idle", job_id |-> "none", rows |-> << >>,
     accepted |-> << >>, duplicates |-> << >>]

\* the for loop of filter_new_rows moves to the next row, or returns
NextRow(f) ==
    [f EXCEPT !.rows = Tail(@),
              !.pc = IF Tail(f.rows) = << >> THEN "done" ELSE "row"]

\* the batches handed to filter_new_rows
Batches == UNION { [1..n -> Values \cup {NoValue}] : n \in 0..MaxBatch }

\* filter_new_rows is called: an empty batch returns at once
FilterStart(t, job_id, rows) ==
    /\ filters[t].pc = "idle"
    /\ filters' = [filters EXCEPT ![t] =
                       [NoCall EXCEPT !.job_id = job_id, !.rows = rows,
                                      !.pc = IF rows = << >> THEN "done" ELSE "row"]]
    /\ UNCHANGED <<jobs, worker, vector_store, primary_log, last_control,
                   disk, files, collection, rowVars>>

\* one row up to the return of _is_duplicate, which holds the lock for its query
FilterQuery(t) ==
    /\ filters[t].pc = "row"
    /\ LET f == filters[t]
           row == Head(f.rows)
           content == BuildContent(row)
       IN filters' = [filters EXCEPT ![t] =
              IF content = EmptyContent
                  THEN NextRow([f EXCEPT !.accepted = Append(@, row)])
              ELSE IF IsDuplicate(collection, content)
                  THEN NextRow([f EXCEPT !.duplicates = Append(@, row)])
              ELSE [f EXCEPT !.pc = "add"]]
    /\ UNCHANGED <<jobs, worker, vector_store, primary_log, last_control,
                   disk, files, collection, rowVars>>

\* _add_embedding, which takes the lock again, and accepted.append
FilterAdd(t) ==
    /\ filters[t].pc = "add"
    /\ LET f == filters[t]
           row == Head(f.rows)
       IN /\ collection' = AddEmbedding(collection, f.job_id, BuildContent(row))
          /\ filters' = [filters EXCEPT ![t] =
                            NextRow([f EXCEPT !.accepted = Append(@, row)])]
    /\ UNCHANGED <<jobs, worker, vector_store, primary_log, last_control,
                   disk, files, rowVars>>

\* ---------------------------------------------------------------- generate_chunk
Min(a, b) == IF a <= b THEN a ELSE b

\* generate_chunk up to the first generator call: the checks, the switch
\* PENDING -> GENERATING and set_current_chunk. raised is the ValueError
\* raised before the try block (NoError when none).
GenBegin(js, id, chunk) ==
    IF id \notin DOMAIN js
        THEN [jobs |-> js, raised |-> "not_found", rows_this_chunk |-> 0]
    ELSE IF js[id].status = "completed"
        THEN [jobs |-> js, raised |-> "already_completed", rows_this_chunk |-> 0]
    ELSE IF ChunkPresent(js[id], chunk)
        THEN [jobs |-> js, raised |-> "chunk_exists", rows_this_chunk |-> 0]
    ELSE IF js[id].total_rows - js[id].rows_generated <= 0
        THEN [jobs |-> UpdateJobStatus(js, id, "completed", NoError),
              raised |-> "all_rows_generated", rows_this_chunk |-> 0]
    ELSE LET js1 == IF js[id].status = "pending"
                        THEN UpdateJobStatus(js, id, "generating", NoError)
                        ELSE js
         IN [jobs |-> SetCurrentChunk(js1, id, chunk),
             raised |-> NoError,
             rows_this_chunk |->
                 Min(js[id].chunk_size, js[id].total_rows - js[id].rows_generated)]

\* the locals of the attempt loop: len(deduped_rows), duplicates_total, attempts,
\* use_fallback_only, fallback_issue is set, calls made to each generator,
\* an exception left the loop, the loop was left by break
AttemptStart ==
    [deduped |-> 0, duplicates |-> 0, attempts |-> 0, use_fallback_only |-> FALSE,
     fallback_issue |-> FALSE, primary_calls |-> 0, fallback_calls |-> 0,
     exc |-> FALSE, brk |-> FALSE]

\* max_attempts taken from the settings whether or not there is a vector store
MaxAttemptsFromSettings(vs) == MaxRetryAttempts

\* max_attempts
MaxAttempts(vs) == IF vs THEN MaxRetryAttempts ELSE 1

\* an attempt loop that goes on to the next attempt after an exception
LoopContinuesAfterError(s, rows_this_chunk, vs) ==
    /\ ~s.brk
    /\ s.deduped < rows_this_chunk
    /\ s.attempts < MaxAttempts(vs)

\* the while condition of the attempt loop; an exception leaves the loop
LoopContinues(s, rows_this_chunk, vs) ==
    /\ ~s.exc
    /\ ~s.brk
    /\ s.deduped < rows_this_chunk
    /\ s.attempts < MaxAttempts(vs)

\* numbers of rows filter_new_rows may accept out of a batch; without a vector
\* store, or for an empty batch, the batch is kept as it is
Accepted(batch, vs) == IF vs /\ batch > 0 THEN 0..batch ELSE {batch}

\* the loop body after the batch was produced: duplicates counted, an empty
\* batch breaks the loop when there is no vector store, other rows are kept
AfterBatch(s, batch, accepted, vs) ==
    [s EXCEPT !.duplicates = @ + (batch - accepted),
              !.deduped = @ + accepted,
              !.brk = (accepted = 0 /\ ~vs)]

\* sizes of the list the primary generator may return for a request of n rows:
\* it is whatever the model's reply parses to, up to one row more than asked
PrimaryBatches(n) == 0..(n + 1)

\* the attempt goes to the fallback generator without asking the primary
StickyFallback(s) == s.use_fallback_only

\* a batch of the fallback generator, which returns exactly the rows asked for,
\* passed through the rest of the loop body
FallbackBatch(t, rows_needed, vs) ==
    { AfterBatch([t EXCEPT !.fallback_calls = @ + 1], rows_needed, a, vs) :
          a \in Accepted(rows_needed, vs) }

\* the primary generator's QuotaExceededError propagated instead of handled
QuotaErrorPropagates(primary, rows_needed, vs) ==
    { [primary EXCEPT !.fallback_issue = TRUE, !.exc = TRUE] }

\* except QuotaExceededError: switch to the fallback, keep the warning, take
\* the batch of this attempt from the fallback generator
OnQuotaExceeded(primary, rows_needed, vs) ==
    FallbackBatch([primary EXCEPT !.use_fallback_only = TRUE,
                                  !.fallback_issue = TRUE], rows_needed, vs)

\* one iteration of the attempt loop: every state it can end in
OneAttempt(s, rows_this_chunk, vs) ==
    LET rows_needed == rows_this_chunk - s.deduped
        s1 == [s EXCEPT !.attempts = @ + 1]
        primary == [s1 EXCEPT !.primary_calls = @ + 1]
    IN IF StickyFallback(s)
         THEN FallbackBatch(s1, rows_needed, vs)
         ELSE UNION { { AfterBatch(primary, batch, a, vs) : a \in Accepted(batch, vs) } :
                          batch \in PrimaryBatches(rows_needed) }
              \cup OnQuotaExceeded(primary, rows_needed, vs)
              \cup { [primary EXCEPT !.exc = TRUE] }

\* the states the attempt loop can end in, started from the states S
RECURSIVE AttemptLoop(_, _, _, _)
AttemptLoop(S, rows_this_chunk, vs, n) ==
    IF n = 0 THEN S
    ELSE AttemptLoop(
            { s \in S : ~LoopContinues(s, rows_this_chunk, vs) }
            \cup UNION { OneAttempt(s, rows_this_chunk, vs) :
                            s \in { t \in S : LoopContinues(t, rows_this_chunk, vs) } },
            rows_this_chunk, vs, n - 1)

\* the ways the attempt loop of one chunk can end, as far as the job state and
\* the generator log depend on them: rows kept, an exception was raised, the
\* quota warning is set, the primary generator was called
LoopResults(rows_this_chunk, vs) ==
    { [deduped |-> s.deduped, exc |-> s.exc, fallback_issue |-> s.fallback_issue,
       primary_called |-> s.primary_calls > 0] :
          s \in AttemptLoop({AttemptStart}, rows_this_chunk, vs, MaxAttempts(vs)) }

\* the completion test after add_chunk
JobComplete(job) ==
    \/ job.chunks_completed >= job.total_chunks
    \/ job.rows_generated >= job.total_rows

\* no ChunkGenerationResponse: generate_chunk raised
NoResponse == [chunk_id |-> NoChunk, rows_generated |-> 0, quota_issue |-> FALSE]

\* generate_chunk without the test for an empty deduped_rows
GenEndStoresEmpty(js, id, chunk, r, store_ok) ==
    IF r.exc
        THEN [jobs |-> UpdateJobStatus(js, id, "failed", "generator_error"),
              raised |-> "generator_error", response |-> NoResponse]
    ELSE IF ~store_ok
        THEN [jobs |-> UpdateJobStatus(js, id, "failed", "store_error"),
              raised |-> "store_error", response |-> NoResponse]
    ELSE LET meta == [chunk_id |-> chunk, rows_generated |-> r.deduped]
             js1  == SetCurrentChunk(AddChunk(js, id, meta), id, NoChunk)
         IN [jobs |-> IF JobComplete(js1[id])
                          THEN UpdateJobStatus(js1, id, "completed", NoError)
                          ELSE js1,
             raised |-> NoError,
             response |-> [chunk_id |-> chunk, rows_generated |-> r.deduped,
                           quota_issue |-> r.fallback_issue]]

\* generate_chunk from the attempt loop on: r is the state the loop ended in,
\* store_ok whether store_chunk returned. An exception sets FAILED and is
\* raised again. response is the ChunkGenerationResponse returned: the chunk
\* id, len(deduped_rows), and whether issues holds the quota warning.
GenEnd(js, id, chunk, r, store_ok) ==
    IF r.exc
        THEN [jobs |-> UpdateJobStatus(js, id, "failed", "generator_error"),
              raised |-> "generator_error", response |-> NoResponse]
    ELSE IF r.deduped = 0
        THEN [jobs |-> UpdateJobStatus(js, id, "failed", "no_new_rows"),
              raised |-> "no_new_rows", response |-> NoResponse]
    ELSE IF ~store_ok
        THEN [jobs |-> UpdateJobStatus(js, id, "failed", "store_error"),
              raised |-> "store_error", response |-> NoResponse]
    ELSE LET meta == [chunk_id |-> chunk, rows_generated |-> r.deduped]
             js1  == SetCurrentChunk(AddChunk(js, id, meta), id, NoChunk)
         IN [jobs |-> IF JobComplete(js1[id])
                          THEN UpdateJobStatus(js1, id, "completed", NoError)
                          ELSE js1,
             raised |-> NoError,
             response |-> [chunk_id |-> chunk, rows_generated |-> r.deduped,
                           quota_issue |-> r.fallback_issue]]

\* merge_job_dataset: merge_ok is whether merge_chunks returned (it raises
\* when a chunk file cannot be read); artifact is whether the merged file and
\* its DatasetDownloadInfo were produced
MergeJobDataset(js, id, merge_ok) ==
    IF id \notin DOMAIN js
        THEN [jobs |-> js, raised |-> "not_found", artifact |-> FALSE]
    ELSE IF js[id].status # "completed" /\ js[id].rows_generated < js[id].total_rows
        THEN [jobs |-> js, raised |-> "not_completed", artifact |-> FALSE]
    ELSE LET js1 == IF js[id].status # "completed"
                        THEN UpdateJobStatus(js, id, "completed", NoError)
                        ELSE js
         IN [jobs |-> js1, raised |-> IF merge_ok THEN NoError ELSE "merge_error",
             artifact |-> merge_ok]

\* run_job after its loop: mark COMPLETED, merge; the except clause sets FAILED
RunFinishEnd(js, id, merge_ok) ==
    LET js1 == IF js[id].status # "completed"
                  THEN UpdateJobStatus(js, id, "completed", NoError)
                  ELSE js
        m   == MergeJobDataset(js1, id, merge_ok)
    IN IF m.raised # NoError
         THEN [jobs |-> UpdateJobStatus(m.jobs, id, "failed", m.raised),
               raised |-> m.raised]
         ELSE [jobs |-> m.jobs, raised |-> NoError]

\* the log of primary generator calls after an attempt loop that ended in r
PrimaryLog(log, r) ==
    IF log # "no_quota" /\ r.primary_called THEN "called_after_quota"
    ELSE IF log = "no_quota" /\ r.fallback_issue THEN "quota"
    ELSE log

\* ---------------------------------------------------------------- background tasks
\* settings.job.max_concurrent_jobs
MaxConcurrentJobs == 5

\* the jobs a client asks to run: one more than the limit
PoolJobs == 1..(MaxConcurrentJobs + 1)

\* the jobs whose run_job is in progress
Running == { id \in PoolJobs : tasks[id] = "running" }

\* POST /jobs/{id}/run: the router refuses a job that is GENERATING, as it is
\* while its run_job is in progress, and otherwise hands _run_job_background
\* to BackgroundTasks.add_task
PostRun(id) ==
    /\ tasks[id] = "none"
    /\ tasks' = [tasks EXCEPT ![id] = "scheduled"]
    /\ UNCHANGED <<jobs, worker, vector_store, primary_log, last_control,
                   disk, files, dedupVars, gen>>

\* the background task starts: _run_job_background calls run_job
TaskStart(id) ==
    /\ tasks[id] = "scheduled"
    /\ tasks' = [tasks EXCEPT ![id] = "running"]
    /\ UNCHANGED <<jobs, worker, vector_store, primary_log, last_control,
                   disk, files, dedupVars, gen>>

\* run_job returns or raises and the task is over
TaskEnd(id) ==
    /\ tasks[id] = "running"
    /\ tasks' = [tasks EXCEPT ![id] = "none"]
    /\ UNCHANGED <<jobs, worker, vector_store, primary_log, last_control,
                   disk, files, dedupVars, gen>>

PoolNext == \E id \in PoolJobs : PostRun(id) \/ TaskStart(id) \/ TaskEnd(id)

\* ---------------------------------------------------------------- rows by value
\* the job's schema has one field, the STRING field "name", which
\* specification.uniqueness_fields lists; these are its sample_values
SampleValues == <<"a", "b">>

\* the bound of the collision-retry loop of generate_data_chunk
CollisionRetries == 20

ForcedOffsets == 100..(100 + ForcedSpread)

\* _generate_value for the field: _generate_string picks the sample at
\* index modulo the number of samples
GenerateValue(index) == SampleValues[(index % Len(SampleValues)) + 1]

\* _make_unique_value for the field: f"{base} {index + rng.randint(100, 999)}"
MakeUniqueValue(index, offset) == "Name " \o ToString(index + offset)

\* the while loop of generate_data_chunk: the value and attempts it ends with
RECURSIVE CollisionLoop(_, _, _, _)
CollisionLoop(seen, index, value, attempts) ==
    IF value \in seen /\ attempts < CollisionRetries
        THEN CollisionLoop(seen, index, GenerateValue(index + attempts + 1), attempts + 1)
        ELSE [value |-> value, attempts |-> attempts]

\* the values row index may get for the field: the value the loop ended with,
\* or, when that one is taken, a forced value, added without another look
UniqueValues(seen, index) ==
    LET e == CollisionLoop(seen, index, GenerateValue(index), 0)
    IN IF e.value \in seen
           THEN { MakeUniqueValue(index + e.attempts + 1, r) : r \in ForcedOffsets }
           ELSE { e.value }

RECURSIVE FallbackFrom(_, _, _)
FallbackFrom(rows, seen, num_rows) ==
    IF Len(rows) >= num_rows
        THEN { rows }
        ELSE UNION { FallbackFrom(Append(rows, v), seen \cup {v}, num_rows) :
                       v \in UniqueValues(seen, Len(rows)) }

\* FallbackGenerator.generate_data_chunk: the lists of rows it may return
FallbackRows(num_rows, existing) == FallbackFrom(<< >>, existing, num_rows)

\* the lists of rows the primary generator may return for a request of n
PrimaryRows(n) == UNION { [1..k -> Values] : k \in 0..(n + 1) }

\* filter_new_rows run by one caller from start to end
RECURSIVE FilterRows(_, _, _, _)
FilterRows(coll, job_id, rows, accepted) ==
    IF rows = << >>
        THEN [accepted |-> accepted, collection |-> coll]
        ELSE LET row == Head(rows)
                 content == BuildContent(row)
             IN IF content = EmptyContent
                    THEN FilterRows(coll, job_id, Tail(rows), Append(accepted, row))
                ELSE IF IsDuplicate(coll, content)
                    THEN FilterRows(coll, job_id, Tail(rows), accepted)
                ELSE FilterRows(AddEmbedding(coll, job_id, content), job_id,
                                Tail(rows), Append(accepted, row))

\* the values of a list of rows
ValuesOf(rows) == { rows[i] : i \in 1..Len(rows) }

\* no job yet
NoRowJob == [pc |-> "none"]

\* no call of the fallback generator yet
NoFallbackCall == [called |-> FALSE, num_rows |-> 0, existing |-> {}, rows |-> << >>]

\* create_job for the job
RowCreate(total_rows, chunk_size) ==
    /\ gen.pc = "none"
    /\ gen' = [pc |-> "idle", status |-> "pending",
               total_rows |-> total_rows, chunk_size |-> chunk_size,
               total_chunks |-> TotalChunks(total_rows, chunk_size),
               stored |-> << >>, chunks_completed |-> 0,
               rows_this_chunk |-> 0, existing_values |-> {},
               deduped_rows |-> << >>, attempts |-> 0,
               use_fallback_only |-> FALSE, fallback |-> NoFallbackCall]
    /\ UNCHANGED <<jobs, worker, vector_store, primary_log, last_control,
                   disk, files, dedupVars, tasks>>

\* generate_chunk for a chunk id the job does not have, up to the while loop
RowBegin ==
    /\ gen.pc = "idle"
    /\ gen.status # "completed"
    /\ LET remaining_rows == gen.total_rows - Len(gen.stored)
       IN gen' = IF remaining_rows <= 0
                    THEN [gen EXCEPT !.status = "completed"]
                    ELSE [gen EXCEPT
                            !.pc = "loop",
                            !.status = IF @ = "pending" THEN "generating" ELSE @,
                            !.rows_this_chunk = Min(gen.chunk_size, remaining_rows),
                            !.existing_values = ValuesOf(gen.stored),
                            !.deduped_rows = << >>,
                            !.attempts = 0,
                            !.use_fallback_only = FALSE]
    /\ UNCHANGED <<jobs, worker, vector_store, primary_log, last_control,
                   disk, files, dedupVars, tasks>>

\* the state after one pass of the while loop that got batch from a generator
RowAfterBatch(g, coll, vs, batch) ==
    LET f == IF vs /\ batch # << >>
                 THEN FilterRows(coll, "A", batch, << >>)
                 ELSE [accepted |-> batch, collection |-> coll]
        deduped == g.deduped_rows \o f.accepted
        again == /\ Len(deduped) < g.rows_this_chunk
                 /\ g.attempts < MaxAttempts(vs)
                 /\ (f.accepted # << >> \/ vs)
    IN [gen |-> [g EXCEPT !.deduped_rows = deduped,
                          !.existing_values = @ \cup ValuesOf(f.accepted),
                          !.pc = IF again THEN "loop" ELSE "end"],
        collection |-> f.collection]

\* one pass of the while loop of generate_chunk; primary is what the primary
\* generator does when it is called: a list of rows, "quota" or "error"
RowAttempt(primary) ==
    /\ gen.pc = "loop"
    /\ LET g == [gen EXCEPT !.attempts = @ + 1]
           rows_needed == gen.rows_this_chunk - Len(gen.deduped_rows)
       IN IF ~gen.use_fallback_only /\ primary = <<"error">>
              THEN /\ gen' = [g EXCEPT !.pc = "idle", !.status = "failed"]
                   /\ UNCHANGED collection
          ELSE IF ~gen.use_fallback_only /\ primary # <<"quota">>
              THEN /\ primary \in PrimaryRows(rows_needed)
                   /\ LET a == RowAfterBatch(g, collection, vector_store, primary)
                      IN gen' = a.gen /\ collection' = a.collection
          ELSE /\ primary = <<"quota">>
               /\ \E batch \in FallbackRows(rows_needed, gen.existing_values) :
                    LET called == [g EXCEPT !.use_fallback_only = TRUE,
                                            !.fallback = [called |-> TRUE,
                                                          num_rows |-> rows_needed,
                                                          existing |-> gen.existing_values,
                                                          rows |-> batch]]
                        a == RowAfterBatch(called, collection, vector_store, batch)
                    IN gen' = a.gen /\ collection' = a.collection
    /\ UNCHANGED <<jobs, worker, vector_store, primary_log, last_control,
                   disk, files, filters, tasks>>

\* generate_chunk after the loop: RuntimeError for no rows, else store_chunk,
\* add_chunk and the switch to COMPLETED
RowEnd ==
    /\ gen.pc = "end"
    /\ gen' = IF gen.deduped_rows = << >>
                  THEN [gen EXCEPT !.pc = "idle", !.status = "failed"]
                  ELSE LET stored == gen.stored \o gen.deduped_rows
                           done == \/ gen.chunks_completed + 1 >= gen.total_chunks
                                   \/ Len(stored) >= gen.total_rows
                       IN [gen EXCEPT !.pc = "idle",
                                      !.stored = stored,
                                      !.chunks_completed = @ + 1,
                                      !.status = IF done THEN "completed" ELSE @]
    /\ UNCHANGED <<jobs, worker, vector_store, primary_log, last_control,
                   disk, files, dedupVars, tasks>>

RowNext ==
    \/ \E total_rows \in 1..MaxRowTotal, chunk_size \in 1..MaxChunkSize :
          RowCreate(total_rows, chunk_size)
    \/ RowBegin
    \/ \E primary \in PrimaryRows(MaxChunkSize) \cup {<<"quota">>, <<"error">>} :
          RowAttempt(primary)
    \/ RowEnd

\* ---------------------------------------------------------------- actions
\* the job file of id holds the job as the step leaves it: every JobManager
\* call of the step ends in _persist_job, and here the writes succeed
Saved(id) == disk' = PersistJob(disk, jobs', id, "ok")

\* the chunk files after generate_chunk ended as e
FilesAfter(fs, e) ==
    IF e.raised = NoError
        THEN StoreChunk(fs, e.response.chunk_id, e.response.rows_generated)
        ELSE fs

Idle == [pc |-> "idle", idx |-> 0, rows_this_chunk |-> 0, cancel_in_flight |-> FALSE]

Init ==
    /\ jobs = << >>
    /\ worker = Idle
    /\ vector_store \in BOOLEAN
    /\ primary_log = "no_quota"
    /\ last_control = [action |-> "none", chunks_completed |-> 0]
    /\ disk = << >>
    /\ files = << >>
    /\ collection = {}
    /\ filters = [t \in Callers |-> NoCall]
    /\ tasks = [id \in PoolJobs |-> "none"]
    /\ gen = NoRowJob

\* create_job followed by validate_schema, as the callers of JobManager do
CreateJob(id, total_rows, chunk_size) ==
    /\ id \notin DOMAIN jobs
    /\ jobs' = ValidateSchema(CreateJobIn(jobs, id, total_rows, chunk_size), id)
    /\ Saved(id)
    /\ UNCHANGED <<worker, vector_store, primary_log, last_control, files, dedupVars, rowVars>>

\* POST /jobs/{id}/control
Control(id, action) ==
    LET c == ControlJob(jobs, id, action)
    IN /\ jobs' = c.jobs
       /\ last_control' = IF action \in {"resume", "retry"} /\ c.ok
                             THEN [action |-> action,
                                   chunks_completed |-> jobs[id].chunks_completed]
                             ELSE last_control
       /\ worker' = IF action = "cancel" /\ c.ok /\ worker.pc = "chunk"
                       THEN [worker EXCEPT !.cancel_in_flight = TRUE]
                       ELSE worker
       /\ Saved(id)
       /\ UNCHANGED <<vector_store, primary_log, files, dedupVars, rowVars>>

\* chunk ids a client asks for: the router accepts every chunk_id > 0
ClientChunkIds(job) == 1..(job.total_chunks + 1)

\* POST /jobs/{id}/chunks: generate_chunk called by a client, one chunk
GenerateChunk(id, chunk) ==
    /\ id \in DOMAIN jobs
    /\ worker.pc = "idle"
    /\ chunk \in ClientChunkIds(jobs[id])
    /\ LET b == GenBegin(jobs, id, chunk)
       IN IF b.raised # NoError
            THEN /\ jobs' = b.jobs
                 /\ UNCHANGED <<primary_log, files>>
            ELSE \E r \in LoopResults(b.rows_this_chunk, vector_store),
                    store_ok \in BOOLEAN :
                    LET e == GenEnd(b.jobs, id, chunk, r, store_ok)
                    IN /\ jobs' = e.jobs
                       /\ files' = FilesAfter(files, e)
                       /\ primary_log' = PrimaryLog(primary_log, r)
    /\ Saved(id)
    /\ UNCHANGED <<worker, vector_store, last_control, dedupVars, rowVars>>

\* POST /jobs/{id}/merge
MergeJob(id, merge_ok) ==
    /\ id \in DOMAIN jobs
    /\ jobs' = MergeJobDataset(jobs, id, merge_ok).jobs
    /\ Saved(id)
    /\ UNCHANGED <<worker, vector_store, primary_log, last_control, files, dedupVars, rowVars>>

\* run_job up to its try block: it raises for an unknown and for a CANCELLED
\* job, and otherwise sets GENERATING unless the job is GENERATING or COMPLETED
RunJobBegin(js, id) ==
    IF id \notin DOMAIN js THEN [jobs |-> js, raised |-> "not_found"]
    ELSE IF js[id].status = "cancelled" THEN [jobs |-> js, raised |-> "cancelled"]
    ELSE IF js[id].status \in {"pending", "schema_validation", "paused", "failed"}
        THEN [jobs |-> UpdateJobStatus(js, id, "generating", NoError),
              raised |-> NoError]
    ELSE [jobs |-> js, raised |-> NoError]

\* POST /jobs/{id}/run and the start of run_job in the background task: the
\* router refuses COMPLETED and GENERATING jobs; when run_job raises at once
\* the task is over, otherwise it enters its loop
RunJob(id) ==
    /\ id \in DOMAIN jobs
    /\ worker.pc = "idle"
    /\ jobs[id].status \notin {"completed", "generating"}
    /\ LET b == RunJobBegin(jobs, id)
       IN /\ jobs' = b.jobs
          /\ worker' = IF b.raised # NoError
                          THEN Idle
                          ELSE [Idle EXCEPT !.pc = "loop", !.idx = 1]
    /\ Saved(id)
    /\ UNCHANGED <<vector_store, primary_log, last_control, files, dedupVars, rowVars>>

\* a run_job loop that does not look at the status
CancelledNeverSeen(job) == FALSE

\* the test of the run_job loop before each chunk
CancelledDuringExecution(job) == job.status = "cancelled"

\* the except clause of run_job
RunFailed(js, id, error) ==
    /\ jobs' = UpdateJobStatus(js, id, "failed", error)
    /\ worker' = Idle

\* one pass of the for loop of run_job up to the generator calls of generate_chunk
RunLoop(id) ==
    /\ worker.pc = "loop"
    /\ IF worker.idx > jobs[id].total_chunks
         THEN /\ worker' = [worker EXCEPT !.pc = "finish"]
              /\ UNCHANGED jobs
       ELSE IF CancelledDuringExecution(jobs[id])
         THEN RunFailed(jobs, id, "cancelled_during_execution")
       ELSE IF ChunkPresent(jobs[id], worker.idx)
         THEN /\ worker' = [worker EXCEPT !.idx = @ + 1]
              /\ UNCHANGED jobs
       ELSE LET b == GenBegin(jobs, id, worker.idx)
            IN IF b.raised # NoError
                 THEN RunFailed(b.jobs, id, b.raised)
                 ELSE /\ jobs' = b.jobs
                      /\ worker' = [worker EXCEPT !.pc = "chunk",
                                      !.rows_this_chunk = b.rows_this_chunk]
    /\ Saved(id)
    /\ UNCHANGED <<vector_store, primary_log, last_control, files, dedupVars, rowVars>>

\* the rest of generate_chunk inside run_job: attempts, store, add_chunk
RunChunk(id) ==
    /\ worker.pc = "chunk"
    /\ \E r \in LoopResults(worker.rows_this_chunk, vector_store),
          store_ok \in BOOLEAN :
          LET e == GenEnd(jobs, id, worker.idx, r, store_ok)
          IN /\ primary_log' = PrimaryLog(primary_log, r)
             /\ files' = FilesAfter(files, e)
             /\ IF e.raised # NoError
                  THEN RunFailed(e.jobs, id, e.raised)
                  ELSE /\ jobs' = e.jobs
                       /\ worker' = [worker EXCEPT !.pc = "loop", !.idx = @ + 1,
                                                    !.rows_this_chunk = 0]
    /\ Saved(id)
    /\ UNCHANGED <<vector_store, last_control, dedupVars, rowVars>>

\* run_job after the loop: mark COMPLETED, merge
RunFinish(id, merge_ok) ==
    /\ worker.pc = "finish"
    /\ jobs' = RunFinishEnd(jobs, id, merge_ok).jobs
    /\ worker' = Idle
    /\ Saved(id)
    /\ UNCHANGED <<vector_store, primary_log, last_control, files, dedupVars, rowVars>>

Next ==
    \/ \E id \in JobIds, total_rows \in 1..MaxRows, chunk_size \in 1..MaxChunkSize :
          CreateJob(id, total_rows, chunk_size)
    \/ \E id \in RequestIds, action \in Actions : Control(id, action)
    \/ \E id \in JobIds, chunk \in 1..(MaxRows + 1) : GenerateChunk(id, chunk)
    \/ \E id \in JobIds, merge_ok \in BOOLEAN : MergeJob(id, merge_ok)
    \/ \E id \in JobIds : RunJob(id)
    \/ \E id \in JobIds : RunLoop(id)
    \/ \E id \in JobIds : RunChunk(id)
    \/ \E id \in JobIds, merge_ok \in BOOLEAN : RunFinish(id, merge_ok)

Spec == Init /\ [][Next]_vars

\* a step of the background task that runs run_job
WorkerStep ==
    \E id \in JobIds :
        RunLoop(id) \/ RunChunk(id) \/ (\E merge_ok \in BOOLEAN : RunFinish(id, merge_ok))

\* ---------------------------------------------------------------- JobManager alone
\* The methods of JobManager called one by one by any caller (the generation
\* service, the MCP server's handlers, a script), with job files whose writes
\* can fail, and restarts of the process.

\* the job file of id holds what memory holds, or neither has the job
InSync(id) ==
    IF id \in DOMAIN jobs
        THEN id \in DOMAIN disk /\ disk[id] = ModelDump(jobs[id])
        ELSE id \notin DOMAIN disk

\* outcomes of a write of id's job file: a write fails only when the one
\* before it succeeded
Writes(id) == IF InSync(id) THEN WriteOutcomes ELSE {"ok"}

StoreUnchanged ==
    UNCHANGED <<worker, vector_store, primary_log, last_control, files, dedupVars, rowVars>>

\* create_job
StoreCreateJob(id, total_rows, chunk_size) ==
    /\ id \notin DOMAIN jobs
    /\ jobs' = CreateJobIn(jobs, id, total_rows, chunk_size)
    /\ \E w \in Writes(id) : disk' = PersistJob(disk, jobs', id, w)
    /\ StoreUnchanged

\* validate_schema
StoreValidateSchema(id) ==
    /\ id \in DOMAIN jobs
    /\ jobs' = ValidateSchema(jobs, id)
    /\ \E w \in Writes(id) : disk' = PersistJob(disk, jobs', id, w)
    /\ StoreUnchanged

\* update_job_status
StoreUpdateStatus(id, status, error) ==
    /\ id \in DOMAIN jobs
    /\ jobs' = UpdateJobStatus(jobs, id, status, error)
    /\ \E w \in Writes(id) : disk' = PersistJob(disk, jobs', id, w)
    /\ StoreUnchanged

\* the ChunkMetadata a caller hands to add_chunk for a job
ChunkMetas(job) ==
    [chunk_id : 1..job.total_chunks, rows_generated : 1..job.chunk_size]

\* add_chunk
StoreAddChunk(id, meta) ==
    /\ id \in DOMAIN jobs
    /\ Len(jobs[id].chunks) < MaxStoreChunks
    /\ meta \in ChunkMetas(jobs[id])
    /\ jobs' = AddChunk(jobs, id, meta)
    /\ \E w \in Writes(id) : disk' = PersistJob(disk, jobs', id, w)
    /\ StoreUnchanged

\* control_job: resume and cancel write the file twice, in update_job_status
\* and again after the field they set afterwards; pause writes it once in
\* update_job_status, retry once; a refused call writes nothing
StoreControl(id, action) ==
    LET c == ControlJob(jobs, id, action)
        mid == IF action \in {"resume", "cancel"}
                  THEN UpdateJobStatus(jobs, id,
                           IF action = "resume" THEN "generating" ELSE "cancelled",
                           NoError)
                  ELSE c.jobs
    IN /\ jobs' = c.jobs
       /\ IF c.ok
            THEN \E w1 \in Writes(id), w2 \in WriteOutcomes :
                    /\ w1 = "ok" \/ w2 = "ok"
                    /\ disk' = PersistJob(PersistJob(disk, mid, id, w1), c.jobs, id,
                                          IF action \in {"resume", "cancel"}
                                              THEN w2 ELSE w1)
            ELSE disk' = disk
       /\ StoreUnchanged

\* the process starts again: JobManager.__init__ loads the job files
Restart ==
    /\ jobs' = LoadJobs(disk)
    /\ UNCHANGED disk
    /\ StoreUnchanged

StoreNext ==
    \/ \E id \in JobIds, total_rows \in 1..MaxRows, chunk_size \in 1..MaxChunkSize :
          StoreCreateJob(id, total_rows, chunk_size)
    \/ \E id \in JobIds : StoreValidateSchema(id)
    \/ \E id \in JobIds, status \in Statuses, error \in {NoError, "error"} :
          StoreUpdateStatus(id, status, error)
    \/ \E id \in JobIds, chunk_id \in 1..MaxRows, rows \in 1..MaxChunkSize :
          StoreAddChunk(id, [chunk_id |-> chunk_id, rows_generated |-> rows])
    \/ \E id \in RequestIds, action \in Actions : StoreControl(id, action)
    \/ Restart

StoreSpec == Init /\ [][StoreNext]_vars

\* the vector store on its own, under calls from two threads
DedupNext ==
    \/ \E t \in Callers, job_id \in DedupJobs, rows \in Batches :
          FilterStart(t, job_id, rows)
    \/ \E t \in Callers : FilterQuery(t)
    \/ \E t \in Callers : FilterAdd(t)

\* get_vector_store has built the store
DedupInit == Init /\ vector_store

DedupSpec == DedupInit /\ [][DedupNext]_vars

\* the background tasks alone
PoolSpec == Init /\ [][PoolNext]_vars

\* one job followed row by row, with and without the vector store
RowSpec == Init /\ [][RowNext]_vars

\* ---------------------------------------------------------------- claims
\* the chunk ids in a job's chunk metadata list
ChunkIdsOf(job) == { job.chunks[i].chunk_id : i \in 1..Len(job.chunks) }

\* C1: whenever a job's status is COMPLETED, progress.rows_generated equals
\* specification.total_rows.
C1_CompletedHasAllRows ==
    \A id \in DOMAIN jobs :
        jobs[id].status = "completed" =>
            jobs[id].rows_generated = jobs[id].total_rows

\* C2: the chunk ids in a job's chunk list are pairwise distinct, all lie in
\* 1..total_chunks, and are exactly {1..total_chunks} when the job is COMPLETED.
C2_ChunkIdsExact ==
    \A id \in DOMAIN jobs :
        LET job == jobs[id]
        IN /\ \A i, k \in 1..Len(job.chunks) :
                  i # k => job.chunks[i].chunk_id # job.chunks[k].chunk_id
           /\ ChunkIdsOf(job) \subseteq 1..job.total_chunks
           /\ job.status = "completed" => ChunkIdsOf(job) = 1..job.total_chunks

\* ceil(a / b) for a > 0, b > 0: the least n with n * b >= a
CeilDiv(a, b) == CHOOSE n \in 1..a : n * b >= a /\ (n - 1) * b < a

\* C3: create_job sets total_chunks to ceil(total_rows / chunk_size), and no
\* later step changes total_chunks (nor the total_rows and chunk_size it is
\* computed from).
C3_TotalChunksIsCeil ==
    /\ [](\A id \in DOMAIN jobs :
            jobs[id].total_chunks = CeilDiv(jobs[id].total_rows, jobs[id].chunk_size))
    /\ [][\A id \in DOMAIN jobs :
            /\ id \in DOMAIN jobs'
            /\ jobs'[id].total_chunks = jobs[id].total_chunks
            /\ jobs'[id].total_rows = jobs[id].total_rows
            /\ jobs'[id].chunk_size = jobs[id].chunk_size]_vars

\* C3 witness: a job whose row count is no multiple of its chunk size has been
\* created and has had a chunk added since
C3_Witness ==
    \E id \in DOMAIN jobs :
        /\ jobs[id].total_rows % jobs[id].chunk_size # 0
        /\ jobs[id].total_chunks = (jobs[id].total_rows \div jobs[id].chunk_size) + 1
        /\ jobs[id].chunks_completed >= 1

\* C4: once a job's status is CANCELLED or COMPLETED, no step changes it.
C4_TerminalStatuses ==
    [][\A id \in DOMAIN jobs :
          jobs[id].status \in {"cancelled", "completed"} =>
              jobs'[id].status = jobs[id].status]_vars

\* C5: a successful cancel leaves status CANCELLED and can_resume false, and
\* in every state after it (can_resume is false only after a cancel) resume
\* and retry return false and leave the job table unchanged.
C5_CancelThenResumeNoOp ==
    \A id \in DOMAIN jobs :
        /\ ControlJob(jobs, id, "cancel").ok =>
              /\ ControlJob(jobs, id, "cancel").jobs[id].status = "cancelled"
              /\ ~ControlJob(jobs, id, "cancel").jobs[id].can_resume
        /\ ~jobs[id].can_resume =>
              \A action \in {"resume", "retry"} :
                  ControlJob(jobs, id, action) = [jobs |-> jobs, ok |-> FALSE]

\* the control actions the legality table of the job state machine allows
TableLegal(action, job) ==
    \/ action = "pause" /\ job.status = "generating"
    \/ action = "resume" /\ job.status = "paused"
    \/ action = "cancel" /\ job.status \in {"generating", "paused", "pending"}
    \/ action = "retry" /\ job.status = "failed" /\ job.can_resume

\* the same with cancel allowed from every status but COMPLETED and FAILED
CodeLegal(action, job) ==
    \/ action = "pause" /\ job.status = "generating"
    \/ action = "resume" /\ job.status = "paused"
    \/ action = "cancel" /\ job.status \in {"pending", "schema_validation",
                                            "generating", "paused", "cancelled"}
    \/ action = "retry" /\ job.status = "failed" /\ job.can_resume

\* C6 as stated: control_job returns true exactly for the pairs of the legality
\* table (cancel from GENERATING, PAUSED or PENDING), and false with the job
\* table unchanged for every other pair, an unknown job or an unknown action.
C6_LegalityTable ==
    \A id \in RequestIds, action \in Actions :
        LET c == ControlJob(jobs, id, action)
        IN /\ c.ok <=> (id \in DOMAIN jobs /\ TableLegal(action, jobs[id]))
           /\ ~c.ok => c.jobs = jobs

\* C6 as amended: the same, with cancel returning true from every status other
\* than COMPLETED and FAILED; on a CANCELLED job it returns true and changes
\* nothing.
C6_LegalityAmended ==
    \A id \in RequestIds, action \in Actions :
        LET c == ControlJob(jobs, id, action)
        IN /\ c.ok <=> (id \in DOMAIN jobs /\ CodeLegal(action, jobs[id]))
           /\ ~c.ok => c.jobs = jobs
           /\ (id \in DOMAIN jobs /\ jobs[id].status = "cancelled") => c.jobs = jobs

\* C6 witness: a CANCELLED job with a chunk in its list; cancel is accepted
\* again and changes nothing, every other action is refused
C6_Witness ==
    \E id \in DOMAIN jobs :
        /\ jobs[id].status = "cancelled"
        /\ Len(jobs[id].chunks) >= 1
        /\ ControlJob(jobs, id, "cancel") = [jobs |-> jobs, ok |-> TRUE]
        /\ \A action \in Actions \ {"cancel"} : ~ControlJob(jobs, id, action).ok

\* a step appends one entry with a chunk id the list did not hold, and leaves
\* the entries already in the list as they are
AppendsNewChunk(old, new) ==
    /\ Len(new.chunks) = Len(old.chunks) + 1
    /\ SubSeq(new.chunks, 1, Len(old.chunks)) = old.chunks
    /\ new.chunks[Len(new.chunks)].chunk_id \notin ChunkIdsOf(old)

\* C7: retry on a FAILED job with can_resume true returns true, sets status
\* PENDING and leaves the chunk list, chunks_completed and rows_generated as
\* they are; and every step that changes a chunk list appends one entry whose
\* chunk id was not in the list (no completed chunk is generated again).
C7_RetryPreservesChunks ==
    [][\A id \in DOMAIN jobs :
          /\ (jobs[id].status = "failed" /\ jobs[id].can_resume) =>
                LET c == ControlJob(jobs, id, "retry")
                IN /\ c.ok
                   /\ c.jobs[id].status = "pending"
                   /\ c.jobs[id].chunks = jobs[id].chunks
                   /\ c.jobs[id].chunks_completed = jobs[id].chunks_completed
                   /\ c.jobs[id].rows_generated = jobs[id].rows_generated
          /\ jobs'[id].chunks # jobs[id].chunks =>
                AppendsNewChunk(jobs[id], jobs'[id])]_vars

\* C7 witness: the job failed with chunk 1 complete and was retried; the next
\* run is generating chunk 2 while the entry of chunk 1 is in the list
C7_Witness ==
    \E id \in DOMAIN jobs :
        /\ last_control = [action |-> "retry", chunks_completed |-> 1]
        /\ jobs[id].status = "generating"
        /\ worker.pc = "chunk"
        /\ worker.idx = 2
        /\ ChunkIdsOf(jobs[id]) = {1}

\* C8: a FAILED job leaves FAILED only by a retry, which needs can_resume and
\* moves it to PENDING; no step moves FAILED to any other status.
C8_FailedLeavesByRetryOnly ==
    [][\A id \in DOMAIN jobs :
          (jobs[id].status = "failed" /\ jobs'[id].status # "failed") =>
              (jobs[id].can_resume /\ jobs'[id].status = "pending")]_vars

\* the least chunk id of 1..total_chunks that is not in the chunk list
NextUngenerated(job) ==
    CHOOSE c \in 1..job.total_chunks :
        /\ c \notin ChunkIdsOf(job)
        /\ \A d \in 1..(c - 1) : d \in ChunkIdsOf(job)

\* C9: pause and resume leave the chunk list as it is; every step that changes
\* a chunk list appends one entry with a chunk id that was not in the list and
\* keeps the earlier entries unchanged; and a chunk generated by run_job is the
\* least chunk id of 1..total_chunks not yet in the list (ascending order).
C9_ResumeRegeneratesNothing ==
    [][\A id \in DOMAIN jobs :
          /\ \A action \in {"pause", "resume"} :
                ControlJob(jobs, id, action).jobs[id].chunks = jobs[id].chunks
          /\ jobs'[id].chunks # jobs[id].chunks =>
                /\ AppendsNewChunk(jobs[id], jobs'[id])
                /\ worker.pc = "chunk" =>
                      /\ \E c \in 1..jobs[id].total_chunks : c \notin ChunkIdsOf(jobs[id])
                      /\ jobs'[id].chunks[Len(jobs'[id].chunks)].chunk_id
                            = NextUngenerated(jobs[id])]_vars

\* C9 witness: the job was paused and resumed when one chunk was complete, and
\* run_job has since appended chunk 2 after the unchanged entry of chunk 1
C9_Witness ==
    \E id \in DOMAIN jobs :
        /\ last_control = [action |-> "resume", chunks_completed |-> 1]
        /\ worker.pc = "loop"
        /\ Len(jobs[id].chunks) = 2
        /\ jobs[id].chunks[1].chunk_id = 1
        /\ jobs[id].chunks[2].chunk_id = 2

\* C10: once the primary generator has signalled quota exhaustion for a job,
\* it is not called again for that job.
C10_StickyFallback == primary_log # "called_after_quota"

\* rows_this_chunk of the generate_chunk call that a step of job id completes
RequestedRows(id) ==
    IF worker.pc = "chunk" THEN worker.rows_this_chunk
    ELSE Min(jobs[id].chunk_size, jobs[id].total_rows - jobs[id].rows_generated)

\* the step holds the first QuotaExceededError of the primary generator
QuotaStep == primary_log = "no_quota" /\ primary_log' = "quota"

\* C11 as claimed: a generate_chunk call in which the primary generator raises
\* a quota error succeeds, its chunk holds exactly the requested number of
\* rows, and the job does not become FAILED.
C11_QuotaNeverAborts ==
    [][QuotaStep =>
        \A id \in DOMAIN jobs :
            /\ Len(jobs'[id].chunks) = Len(jobs[id].chunks) + 1
            /\ jobs'[id].chunks[Len(jobs'[id].chunks)].rows_generated = RequestedRows(id)
            /\ jobs'[id].status # "failed"]_vars

\* C11 amended: the quota error itself is never raised out of generate_chunk.
\* The call fails, with status FAILED, only when no row was accepted in any
\* attempt or storing the chunk raised. Whenever it returns, the chunk holds
\* between 1 and the requested number of rows (exactly the requested number
\* without a vector store), the response's issues hold the quota warning and
\* its rows_generated is the chunk's, and the job is not moved to FAILED.
C11_QuotaHandledByFallback ==
    /\ [](\A id \in DOMAIN jobs :
            \A chunk \in ClientChunkIds(jobs[id]), store_ok \in BOOLEAN :
                \A r \in LoopResults(RequestedRows(id), vector_store) :
                    LET e == GenEnd(jobs, id, chunk, r, store_ok)
                    IN r.fallback_issue =>
                        /\ ~r.exc
                        /\ e.raised \in {NoError, "no_new_rows", "store_error"}
                        /\ e.raised = NoError =>
                              /\ e.response.quota_issue
                              /\ e.response.rows_generated = r.deduped
                              /\ r.deduped \in 1..RequestedRows(id)
                              /\ ~vector_store => r.deduped = RequestedRows(id))
    /\ [][QuotaStep =>
            \A id \in DOMAIN jobs :
                LET old == jobs[id]
                    new == jobs'[id]
                IN \/ /\ new.status = "failed"
                      /\ new.error_message \in {"no_new_rows", "store_error"}
                      /\ new.chunks = old.chunks
                      /\ vector_store \/ new.error_message = "store_error"
                   \/ /\ Len(new.chunks) = Len(old.chunks) + 1
                      /\ new.chunks[Len(new.chunks)].rows_generated \in 1..RequestedRows(id)
                      /\ ~vector_store =>
                            new.chunks[Len(new.chunks)].rows_generated = RequestedRows(id)
                      /\ new.status = "failed" => old.status = "failed"]_vars

\* C11 witness: the only chunk of a job was generated by the fallback after
\* the primary generator's quota error, and the job is COMPLETED
C11_Witness ==
    \E id \in DOMAIN jobs :
        /\ primary_log = "quota"
        /\ jobs[id].total_chunks = 1
        /\ Len(jobs[id].chunks) = 1
        /\ jobs[id].status = "completed"
        /\ jobs[id].rows_generated = jobs[id].total_rows

\* how often value v occurs in the sequence q
Occurrences(q, v) == Cardinality({ i \in 1..Len(q) : q[i] = v })

\* C13: of the rows with one canonical content handed to concurrent
\* filter_new_rows calls, at most one is accepted as new.
C13_CheckThenActAtomic ==
    \A v \in Values :
        Occurrences(filters[1].accepted, v) + Occurrences(filters[2].accepted, v) <= 1

\* the step classifies the next row of caller t as a duplicate
RejectsRow(t) ==
    /\ filters[t].pc = "row"
    /\ Len(filters'[t].duplicates) = Len(filters[t].duplicates) + 1

\* C14: a row handed in for one job is classified as a duplicate only because
\* of an entry that was added for the same job.
C14_IndexPerJob ==
    [][\A t \in Callers :
          RejectsRow(t) =>
              \E e \in collection :
                  /\ e.job_id = filters[t].job_id
                  /\ Distance(e.content, BuildContent(Head(filters[t].rows)))
                        <= SimilarityThreshold]_vars

\* the row caller t is at
CurrentRow(t) == Head(filters[t].rows)

\* C15: a row whose content is already in the index is returned as a
\* duplicate and not accepted; a row with nothing in the index within the
\* threshold (its first occurrence) is accepted and its content inserted; a
\* row missing a value is accepted and nothing is inserted.
C15_SameRowTwice ==
    [][\A t \in Callers :
          LET f == filters[t]
              g == filters'[t]
          IN /\ (f.pc = "row" /\ g # f /\ CurrentRow(t) = NoValue) =>
                    /\ g.accepted = Append(f.accepted, NoValue)
                    /\ g.duplicates = f.duplicates
                    /\ collection' = collection
             /\ (f.pc = "row" /\ g # f /\ CurrentRow(t) # NoValue
                    /\ \E e \in collection : e.content = CurrentRow(t)) =>
                    /\ g.duplicates = Append(f.duplicates, CurrentRow(t))
                    /\ g.accepted = f.accepted
                    /\ collection' = collection
             /\ (f.pc = "row" /\ g # f /\ CurrentRow(t) # NoValue
                    /\ \A e \in collection :
                          Distance(e.content, CurrentRow(t)) > SimilarityThreshold) =>
                    /\ g.pc = "add"
                    /\ g.accepted = f.accepted /\ g.duplicates = f.duplicates
             /\ (f.pc = "add" /\ g # f) =>
                    /\ g.accepted = Append(f.accepted, CurrentRow(t))
                    /\ g.duplicates = f.duplicates
                    /\ \E e \in collection' :
                          e.content = CurrentRow(t) /\ e.job_id = f.job_id]_vars

\* C15 witness: one call was handed the same row twice and a row without a
\* value: the first was accepted and inserted, the second returned as a
\* duplicate; a later call with that row again had it returned as a duplicate
C15_Witness ==
    /\ filters[1].pc = "done"
    /\ filters[1].accepted = <<"a">>
    /\ filters[1].duplicates = <<"a">>
    /\ filters[2].pc = "done"
    /\ filters[2].accepted = <<NoValue>>
    /\ filters[2].duplicates = <<"a">>
    /\ collection = { [job_id |-> filters[1].job_id, content |-> "a"] }

\* C12: add_chunk never appends a ChunkMetadata whose chunk_id is already in
\* the job's chunk list: whenever the list grows, the id added is a new one.
C12_DuplicateChunkRejected ==
    [][\A id \in DOMAIN jobs \cap DOMAIN jobs' :
          Len(jobs'[id].chunks) > Len(jobs[id].chunks) =>
              jobs'[id].chunks[Len(jobs'[id].chunks)].chunk_id
                  \notin ChunkIdsOf(jobs[id])]_vars

\* C20: after every JobManager call the job file of each job in memory holds
\* that job as it is in memory, so that loading the files gives the same jobs.
C20_DurableEqualsMemory ==
    /\ \A id \in DOMAIN jobs :
          id \in DOMAIN disk /\ disk[id] = ModelDump(jobs[id])
    /\ LoadJobs(disk) = jobs

\* the generate_chunk calls that have reached, or can now reach, the attempt
\* loop for job id: the job table, chunk id and rows_this_chunk they hold
CallsAtLoop(id) ==
    IF worker.pc = "chunk"
        THEN { [jobs |-> jobs, chunk |-> worker.idx, rows |-> worker.rows_this_chunk] }
    ELSE IF worker.pc = "idle"
        THEN { [jobs |-> GenBegin(jobs, id, chunk).jobs, chunk |-> chunk,
                rows |-> GenBegin(jobs, id, chunk).rows_this_chunk] :
                  chunk \in { c \in ClientChunkIds(jobs[id]) :
                                 GenBegin(jobs, id, c).raised = NoError } }
    ELSE {}

\* the step fails job id for want of rows
FailsForNoRows(id) ==
    /\ jobs'[id].status = "failed" /\ jobs'[id].error_message = "no_new_rows"
    /\ ~(jobs[id].status = "failed" /\ jobs[id].error_message = "no_new_rows")

\* C16: when the attempt loop of a chunk ends, without an exception, with no
\* row accepted, the job becomes FAILED with an error message, no
\* ChunkMetadata is appended, no chunk file is written and chunks_completed
\* and rows_generated stay as they were; when it ends with at least one row
\* accepted the rows are handed to store_chunk and, once it returns, the chunk
\* is appended with exactly those rows.
C16_ZeroRowsFailsChunk ==
    /\ [](\A id \in DOMAIN jobs : \A c \in CallsAtLoop(id), store_ok \in BOOLEAN :
            \A r \in LoopResults(c.rows, vector_store) :
                LET e   == GenEnd(c.jobs, id, c.chunk, r, store_ok)
                    old == c.jobs[id]
                    new == e.jobs[id]
                IN ~r.exc =>
                    /\ r.deduped = 0 =>
                          /\ e.raised # NoError
                          /\ new.status = "failed"
                          /\ new.error_message # NoError
                          /\ new.chunks = old.chunks
                          /\ new.chunks_completed = old.chunks_completed
                          /\ new.rows_generated = old.rows_generated
                          /\ FilesAfter(files, e) = files
                    /\ (r.deduped >= 1 /\ store_ok) =>
                          /\ e.raised = NoError
                          /\ new.chunks = Append(old.chunks,
                                  [chunk_id |-> c.chunk, rows_generated |-> r.deduped])
                          /\ new.chunks_completed = old.chunks_completed + 1
                          /\ new.rows_generated = old.rows_generated + r.deduped
                          /\ FilesAfter(files, e)[c.chunk] = WriteCsv(c.chunk, r.deduped))
    /\ [][\A id \in DOMAIN jobs :
            FailsForNoRows(id) =>
                /\ jobs'[id].chunks = jobs[id].chunks
                /\ jobs'[id].chunks_completed = jobs[id].chunks_completed
                /\ jobs'[id].rows_generated = jobs[id].rows_generated
                /\ files' = files]_vars

\* C16 witness: chunk 1 was stored with the rows accepted for it, and chunk 2
\* then failed the job because no row was accepted in any attempt
C16_Witness ==
    \E id \in DOMAIN jobs :
        /\ jobs[id].status = "failed"
        /\ jobs[id].error_message = "no_new_rows"
        /\ ChunkIdsOf(jobs[id]) = {1}
        /\ jobs[id].chunks_completed = 1
        /\ jobs[id].total_chunks = 2
        /\ DOMAIN files = {1}

\* C17: a merge that fails leaves the job COMPLETED, when merge_job_dataset is
\* called on its own and when it is the last step of run_job.
C17_MergeFailureKeepsCompleted ==
    \A id \in DOMAIN jobs :
        /\ LET m == MergeJobDataset(jobs, id, FALSE)
           IN m.raised = "merge_error" => m.jobs[id].status = "completed"
        /\ worker.pc = "finish" =>
              LET f == RunFinishEnd(jobs, id, FALSE)
              IN f.raised = "merge_error" => f.jobs[id].status = "completed"

\* C18: merge_job_dataset goes on to merge, with the job COMPLETED, exactly
\* when the job is COMPLETED or rows_generated equals total_rows; in every
\* other state it raises before merging, produces no artifact and leaves the
\* job as it is.
C18_MergeGate ==
    \A id \in DOMAIN jobs : \A merge_ok \in BOOLEAN :
        LET job == jobs[id]
            m   == MergeJobDataset(jobs, id, merge_ok)
        IN IF job.status = "completed" \/ job.rows_generated = job.total_rows
             THEN /\ m.jobs[id].status = "completed"
                  /\ m.raised \in {NoError, "merge_error"}
                  /\ m.artifact = merge_ok
             ELSE /\ m.raised = "not_completed"
                  /\ m.jobs = jobs
                  /\ ~m.artifact

\* the orders a chunk list can be handed over in
Reorderings(q) ==
    { [i \in 1..Len(q) |-> q[p[i]]] :
        p \in { f \in [1..Len(q) -> 1..Len(q)] :
                  \A i, j \in 1..Len(q) : f[i] = f[j] => i = j } }

RECURSIVE SumRowsGenerated(_)
SumRowsGenerated(q) ==
    IF q = << >> THEN 0 ELSE q[1].rows_generated + SumRowsGenerated(Tail(q))

\* C19: the merged CSV of a job's chunks has the header once, as its first
\* line, then the data lines in ascending chunk id; it has as many data lines
\* as the chunk metadata's rows_generated add up to; and it is the same file
\* for every order of the chunk list, so also when the merge is run again.
C19_MergeChunksOrdered ==
    \A id \in DOMAIN jobs :
        jobs[id].chunks # << >> =>
            LET m   == MergeChunks(jobs[id].chunks, files)
                out == m.lines
            IN /\ m.raised = NoError
               /\ out[1] = Header
               /\ Occurrences(out, Header) = 1
               /\ \A i, j \in 2..Len(out) : i < j => out[i] <= out[j]
               /\ Len(out) - 1 = SumRowsGenerated(jobs[id].chunks)
               /\ \A q \in Reorderings(jobs[id].chunks) : MergeChunks(q, files) = m

\* a finished job whose chunk list is not in chunk id order: chunk 2 was
\* stored before chunk 1
C19_Witness ==
    \E id \in DOMAIN jobs :
        /\ jobs[id].status = "completed"
        /\ Len(jobs[id].chunks) >= 2
        /\ jobs[id].chunks[1].chunk_id > jobs[id].chunks[2].chunk_id
        /\ MergeChunks(jobs[id].chunks, files).raised = NoError

\* C23: no chunk generation begins while the job is PAUSED: when run_job goes
\* on to generate a chunk, and when a client's generate_chunk call gets past
\* its checks, the status it read is not PAUSED.
C23_NoChunkWhilePaused ==
    [][\A id \in DOMAIN jobs :
          /\ (worker.pc = "loop" /\ worker'.pc = "chunk") =>
                 jobs[id].status # "paused"
          /\ (worker.pc = "idle" /\ worker'.pc = "idle"
                /\ Len(jobs'[id].chunks) > Len(jobs[id].chunks)) =>
                 jobs[id].status # "paused"]_vars

\* C26: whenever no generate_chunk call is in progress for a job, its
\* current_chunk is null; while run_job is inside generate_chunk for chunk k
\* it is k.
C26_CurrentChunkOnlyInFlight ==
    \A id \in DOMAIN jobs :
        IF worker.pc = "chunk"
            THEN jobs[id].current_chunk = worker.idx
            ELSE jobs[id].current_chunk = NoChunk

\* C29: chunks_completed is the length of the chunk list and rows_generated
\* the sum of its entries' rows_generated; every entry has its chunk file,
\* with as many rows as the entry says and at least one; a step leaves the
\* entries it finds as they are and appends at most one.
C29_CountersMatchChunkList ==
    /\ [](\A id \in DOMAIN jobs :
            /\ jobs[id].chunks_completed = Len(jobs[id].chunks)
            /\ jobs[id].rows_generated = SumRowsGenerated(jobs[id].chunks)
            /\ \A i \in 1..Len(jobs[id].chunks) :
                  LET c == jobs[id].chunks[i]
                  IN /\ c.rows_generated >= 1
                     /\ c.chunk_id \in DOMAIN files
                     /\ files[c.chunk_id] = WriteCsv(c.chunk_id, c.rows_generated))
    /\ [][\A id \in DOMAIN jobs :
            /\ Len(jobs'[id].chunks) \in {Len(jobs[id].chunks), Len(jobs[id].chunks) + 1}
            /\ SubSeq(jobs'[id].chunks, 1, Len(jobs[id].chunks)) = jobs[id].chunks]_vars

\* a job with two chunks, the second appended by the run_job worker
C29_Witness ==
    \E id \in DOMAIN jobs :
        /\ Len(jobs[id].chunks) = 2
        /\ worker.pc = "loop"
        /\ worker.idx > 2

\* C30: chunks_completed never exceeds total_chunks, so progress_percentage
\* never exceeds 100.
C30_ChunksWithinTotal ==
    \A id \in DOMAIN jobs :
        /\ jobs[id].chunks_completed <= jobs[id].total_chunks
        /\ jobs[id].progress_percentage <= 100

\* the step fails job id because a generator call raised
FailsForGeneratorError(id) ==
    /\ jobs'[id].status = "failed" /\ jobs'[id].error_message = "generator_error"
    /\ ~(jobs[id].status = "failed" /\ jobs[id].error_message = "generator_error")

\* C25: an attempt that raises ends the attempt loop (the loop state it left
\* is the one the loop ends in, whatever number of attempts was left);
\* generate_chunk then sets FAILED with the error as error_message, appends no
\* chunk, writes no file and leaves chunks_completed and rows_generated as
\* they were; and the run_job worker is back to idle, so it generates no
\* further chunk.
C25_FailFast ==
    /\ [](\A id \in DOMAIN jobs : \A c \in CallsAtLoop(id) :
            /\ LET ends == AttemptLoop({AttemptStart}, c.rows, vector_store,
                                       MaxAttempts(vector_store))
               IN \A k \in 0..MaxAttempts(vector_store) :
                     \A s \in AttemptLoop({AttemptStart}, c.rows, vector_store, k) :
                         s.exc => s \in ends
            /\ \A store_ok \in BOOLEAN, r \in LoopResults(c.rows, vector_store) :
                  LET e   == GenEnd(c.jobs, id, c.chunk, r, store_ok)
                      old == c.jobs[id]
                      new == e.jobs[id]
                  IN r.exc =>
                        /\ e.raised = "generator_error"
                        /\ new.status = "failed"
                        /\ new.error_message = e.raised
                        /\ new.chunks = old.chunks
                        /\ new.chunks_completed = old.chunks_completed
                        /\ new.rows_generated = old.rows_generated
                        /\ FilesAfter(files, e) = files)
    /\ [][\A id \in DOMAIN jobs :
            FailsForGeneratorError(id) =>
                /\ jobs'[id].chunks = jobs[id].chunks
                /\ jobs'[id].chunks_completed = jobs[id].chunks_completed
                /\ jobs'[id].rows_generated = jobs[id].rows_generated
                /\ files' = files
                /\ worker' = Idle]_vars

\* C25 witness: with a vector store, so that attempts were left, chunk 1 was
\* stored and a generator error on chunk 2 failed the job
C25_Witness ==
    \E id \in DOMAIN jobs :
        /\ vector_store
        /\ jobs[id].status = "failed"
        /\ jobs[id].error_message = "generator_error"
        /\ ChunkIdsOf(jobs[id]) = {1}
        /\ jobs[id].total_chunks = 2
        /\ jobs[id].current_chunk = 2
        /\ worker = Idle

\* C24: a cancel accepted while run_job is generating chunk k does not abort
\* the chunk: whenever its attempts end with rows and store_chunk returns, the
\* chunk is written and its metadata appended; and once that call is over the
\* run_job loop starts no further chunk.
C24_CancelAtChunkBoundary ==
    /\ [](\A id \in DOMAIN jobs :
            (worker.pc = "chunk" /\ worker.cancel_in_flight) =>
                \A r \in LoopResults(worker.rows_this_chunk, vector_store) :
                    LET e == GenEnd(jobs, id, worker.idx, r, TRUE)
                    IN (~r.exc /\ r.deduped >= 1) =>
                          /\ e.raised = NoError
                          /\ e.jobs[id].chunks = Append(jobs[id].chunks,
                                 [chunk_id |-> worker.idx, rows_generated |-> r.deduped])
                          /\ FilesAfter(files, e)[worker.idx] =
                                 WriteCsv(worker.idx, r.deduped))
    /\ [][worker.cancel_in_flight =>
            /\ (worker.pc = "chunk" /\ worker'.pc = "loop") =>
                   \A id \in DOMAIN jobs :
                       /\ ChunkPresent(jobs'[id], worker.idx)
                       /\ worker.idx \in DOMAIN files'
            /\ worker.pc # "chunk" => worker'.pc # "chunk"]_vars

\* C24 witness: cancel was accepted while chunk 1 of 2 was in flight, chunk 1
\* is stored, and the loop is about to look at chunk 2
C24_Witness ==
    \E id \in DOMAIN jobs :
        /\ worker.cancel_in_flight
        /\ worker.pc = "loop"
        /\ worker.idx = 2
        /\ jobs[id].total_chunks = 2
        /\ jobs[id].status = "cancelled"
        /\ ChunkIdsOf(jobs[id]) = {1}
        /\ DOMAIN files = {1}

\* the status is one that run_job may leave behind
DrivenToEnd(id) == jobs[id].status \in {"completed", "failed"}

\* the attempt loops of the calls at hand make at most max_retry_attempts
\* attempts, and exactly one without a vector store
AttemptsBounded ==
    \A id \in DOMAIN jobs : \A c \in CallsAtLoop(id) :
        \A s \in AttemptLoop({AttemptStart}, c.rows, vector_store,
                              MaxAttempts(vector_store)) :
            /\ s.attempts <= MaxRetryAttempts
            /\ s.attempts >= 1
            /\ ~vector_store => s.attempts = 1

\* the steps run_job can still take: none when it has ended, one before the
\* merge, two for each chunk index left (the test of the loop, the chunk)
RunRank(id) ==
    LET left == jobs[id].total_chunks + 1 - worker.idx
    IN CASE worker.pc = "idle" -> 0
         [] worker.pc = "finish" -> 1
         [] worker.pc = "chunk" -> 1 + 2 * left
         [] OTHER -> 2 + 2 * left

\* run_job ends: while it runs it can always take a step (its calls return),
\* and each step, which moves it to another position, leaves it fewer steps
\* to take
RunJobTerminates ==
    /\ [](worker.pc # "idle" => ENABLED WorkerStep)
    /\ [][(worker.pc # "idle" /\ <<worker.pc, worker.idx>>' # <<worker.pc, worker.idx>>) =>
            \A id \in DOMAIN jobs :
                /\ RunRank(id) > 0
                /\ RunRank(id)' >= 0
                /\ RunRank(id)' < RunRank(id)]_vars

\* C28 as stated: run_job ends; a chunk makes at most max_retry_attempts
\* attempts, one without a vector store; and whenever run_job returns or
\* raises, also at once, the status is COMPLETED or FAILED.
C28_RunJobEndsCompletedOrFailed ==
    /\ RunJobTerminates
    /\ []AttemptsBounded
    /\ [](\A id \in DOMAIN jobs :
            RunJobBegin(jobs, id).raised # NoError => DrivenToEnd(id))
    /\ [][(worker.pc # "idle" /\ worker'.pc = "idle") =>
            \A id \in DOMAIN jobs' : DrivenToEnd(id)']_vars

\* C28 amended: as stated, except that run_job called for a CANCELLED job
\* raises at once and leaves the job as it is.
C28_RunJobEndsUnlessCancelled ==
    /\ RunJobTerminates
    /\ []AttemptsBounded
    /\ [](\A id \in DOMAIN jobs :
            LET b == RunJobBegin(jobs, id)
            IN b.raised # NoError =>
                  (jobs[id].status = "cancelled" /\ b.jobs = jobs))
    /\ [][(worker.pc # "idle" /\ worker'.pc = "idle") =>
            \A id \in DOMAIN jobs' : DrivenToEnd(id)']_vars

\* C28 witness: run_job has ended for a job of two chunks, both stored, by
\* raising the error of its merge
C28_Witness ==
    \E id \in DOMAIN jobs :
        /\ worker = Idle
        /\ jobs[id].status = "failed"
        /\ jobs[id].error_message = "merge_error"
        /\ jobs[id].total_chunks = 2
        /\ ChunkIdsOf(jobs[id]) = {1, 2}

\* C27: at most max_concurrent_jobs jobs have their run_job in progress.
C27_AtMostMaxConcurrentJobs == Cardinality(Running) <= MaxConcurrentJobs

\* C21: over all the rows stored for a job, no two rows carry the same value
\* of the uniqueness field, with or without a vector store and whichever
\* generator produced them.
C21_UniquenessAcrossJob ==
    gen.pc # "none" =>
        \A i, j \in 1..Len(gen.stored) : i # j => gen.stored[i] # gen.stored[j]

\* C22: the fallback generator returns exactly the number of rows asked for,
\* their values of the unique field are pairwise distinct and none is among
\* the existing values, and the collision loop of every row ended within
\* CollisionRetries retries.
C22_FallbackRowsUnique ==
    (gen.pc # "none" /\ gen.fallback.called) =>
        LET f == gen.fallback
        IN /\ Len(f.rows) = f.num_rows
           /\ \A i, j \in 1..Len(f.rows) : i # j => f.rows[i] # f.rows[j]
           /\ ValuesOf(f.rows) \cap f.existing = {}
           /\ \A i \in 1..Len(f.rows) :
                 LET seen == f.existing \cup { f.rows[k] : k \in 1..(i - 1) }
                 IN CollisionLoop(seen, i - 1, GenerateValue(i - 1), 0).attempts
                        <= CollisionRetries

====
